---- MODULE Spec2Model ----
(***************************************************************************)
(* Receipt pipeline: folder watcher + worker pool (controller.py), the     *)
(* four-stage LangGraph workflow (controller.py), the file tools           *)
(* (tools.py) and the SQLite receipt store (db_utils.py).                  *)
(***************************************************************************)
EXTENDS Integers, Sequences, FiniteSets, TLC

(*************************** bounds of the model ***************************)
\* files ever dropped into the input folder
MaxFiles == 2
\* process lifetimes (starts of monitor_and_process_pdfs)
MaxStarts == 2
\* extra creation events the OS may deliver for one created file
MaxDupEvents == 1
\* largest file size a size read may observe (sizes are 1..MaxSize)
MaxSize == 3
\* serialized store inserts of the store-only specification
MaxSerialInserts == 3
\* I/O faults (a failing INSERT, move, rmtree or replace) the environment injects
MaxFaults == 1

(**************************** program constants ****************************)
\* stable_file(path, checks=3)
checks == 3
\* _robust_move(src, dst, attempts=5)
attempts == 5
\* ThreadPoolExecutor(max_workers=1)
max_workers == 1
\* if score > 75
AcceptScore == 75
\* f"{next_counter:03d}"
IdWidth == 3

Names == {"a.pdf", "b.pdf"}
input_pdf_folder == "pdfs/"
InputPath(fn) == input_pdf_folder \o fn
Paths == {InputPath(fn) : fn \in Names}
basename(p) == IF p \in Paths THEN CHOOSE fn \in Names : InputPath(fn) = p ELSE p

\* evaluation scores the evaluation capability may return (validated 0..100)
Scores == {AcceptScore, AcceptScore + 1}
\* the receipt date the vision capability reads off the receipts of a run
VisionDates == {"20241103"}
\* values of the date field the vision capability may return: YYYYMMDD, absent, malformed
RawDates == {"20241103", "", "2024/11/03"}
\* the wall clock's calendar day at an insert, as strftime("%y%m%d")
Today == {"241103", "241104"}
NoScore == -1
NoFile == 0

\* the fixed low-confidence message of call_finalize (Japanese text in the source)
LowScoreMsg == "low evaluation score, processing failed"
\* the fixed duplicate message of process_pdf (Japanese text in the source)
DuplicateMsg == "a file with the same name was already processed"

(****************************** text helpers *******************************)
Min(a, b) == IF a < b THEN a ELSE b

RECURSIVE DecimalDigits(_)
\* str(n) as a sequence of decimal digits, most significant first
DecimalDigits(n) == IF n < 10 THEN <<n>> ELSE Append(DecimalDigits(n \div 10), n % 10)

RECURSIVE ZeroPad(_, _)
ZeroPad(ds, w) == IF Len(ds) >= w THEN ds ELSE ZeroPad(<<0>> \o ds, w)

\* f"{n:03d}": at least IdWidth digits, more when n needs them
Format03d(n) == ZeroPad(DecimalDigits(n), IdWidth)

RECURSIVE ParseInt(_)
\* int(text) of a digit string
ParseInt(ds) == IF Len(ds) = 0 THEN 0
                ELSE 10 * ParseInt(SubSeq(ds, 1, Len(ds) - 1)) + ds[Len(ds)]

\* text comparison (SQLite BINARY collation) of two digit strings
TextLess(a, b) ==
    \E i \in 1..(Min(Len(a), Len(b)) + 1) :
        /\ \A j \in 1..(i - 1) : a[j] = b[j]
        /\ \/ i > Len(a) /\ i <= Len(b)
           \/ i <= Len(a) /\ i <= Len(b) /\ a[i] < b[i]

\* datetime.strptime(raw, "%Y%m%d").strftime("%y%m%d"); "" when it raises
Strptime(raw) == CASE raw = "20241103" -> "241103"
                   [] raw = "20241104" -> "241104"
                   [] OTHER -> ""

\* date_yymmdd of insert_success_receipt / insert_failed_receipt
DateYYMMDD(date_raw, now) ==
    IF date_raw # "" /\ Strptime(date_raw) # "" THEN Strptime(date_raw) ELSE now

(****************************** receipt store ******************************)
GenId(date, n) == [date |-> date, num |-> Format03d(n)]

RECURSIVE LastIdIn(_, _, _, _)
\* SELECT generated_receipt_id ... WHERE id LIKE 'date_%' ORDER BY 1 DESC LIMIT 1
\* over rows lo..hi of the table; <<>> when no row matches
LastIdIn(table, date, lo, hi) ==
    IF lo > hi THEN <<>>
    ELSE IF lo = hi
         THEN IF table[lo].generated_receipt_id.date = date
              THEN <<table[lo].generated_receipt_id>> ELSE <<>>
         ELSE LET mid == (lo + hi) \div 2
                  l == LastIdIn(table, date, lo, mid)
                  r == LastIdIn(table, date, mid + 1, hi)
              IN  IF l = <<>> THEN r
                  ELSE IF r = <<>> THEN l
                  ELSE IF TextLess(l[1].num, r[1].num) THEN r ELSE l

_next_receipt_id(table, date_yymmdd) ==
    LET last == LastIdIn(table, date_yymmdd, 1, Len(table))
    IN  IF last = <<>> THEN GenId(date_yymmdd, 1)
        ELSE GenId(date_yymmdd, ParseInt(last[1].num) + 1)

\* a table without its PRIMARY KEY constraint
HasIdOpen(table, id) == FALSE

HasId(table, id) == \E i \in 1..Len(table) : table[i].generated_receipt_id = id

\* SELECT 1 FROM successful_receipts WHERE original_pdf_filename = pdf_name
receipt_exists(table, pdf_name) ==
    \E i \in 1..Len(table) : table[i].original_pdf_filename = pdf_name

\* the columns kept: id, file name, (error message,) score; `file` is history,
\* the file the row was written for
SuccessRow(id, pdf_name, score, fid) ==
    [generated_receipt_id |-> id, original_pdf_filename |-> pdf_name,
     evaluation_score |-> score, file |-> fid]

FailedRow(id, pdf_name, error_msg, score, fid) ==
    [generated_receipt_id |-> id, original_pdf_filename |-> pdf_name,
     error_message |-> error_msg, evaluation_score |-> score, file |-> fid]

\* an INSERT that would write its row twice
SqlInsertTwice(table, row, dbok) ==
    IF dbok /\ ~HasId(table, row.generated_receipt_id)
    THEN [ok |-> TRUE, table |-> Append(Append(table, row), row),
          id |-> row.generated_receipt_id]
    ELSE [ok |-> FALSE, table |-> table, id |-> row.generated_receipt_id]

\* an INSERT that an I/O fault interrupts after the row is written
SqlInsertPartial(table, row, dbok) ==
    IF HasId(table, row.generated_receipt_id)
    THEN [ok |-> FALSE, table |-> table, id |-> row.generated_receipt_id]
    ELSE [ok |-> dbok, table |-> Append(table, row), id |-> row.generated_receipt_id]

\* the INSERT statement: a PRIMARY KEY clash or an I/O fault raises and
\* leaves the table as it was
SqlInsert(table, row, dbok) ==
    IF dbok /\ ~HasId(table, row.generated_receipt_id)
    THEN [ok |-> TRUE, table |-> Append(table, row), id |-> row.generated_receipt_id]
    ELSE [ok |-> FALSE, table |-> table, id |-> row.generated_receipt_id]

\* serialized call: id read and INSERT with no other statement in between
insert_success_receipt(table, pdf_name, date_raw, score, fid, now, dbok) ==
    SqlInsert(table,
              SuccessRow(_next_receipt_id(table, DateYYMMDD(date_raw, now)),
                         pdf_name, score, fid),
              dbok)

insert_failed_receipt(table, pdf_name, error_msg, date_raw, score, fid, now, dbok) ==
    SqlInsert(table,
              FailedRow(_next_receipt_id(table, DateYYMMDD(date_raw, now)),
                        pdf_name, error_msg, score, fid),
              dbok)


(******************************* file tools ********************************)
\* a directory entry's name: the original file name, or "{generated id}.pdf"
OrigName(fn) == [orig |-> fn, id |-> <<>>]
\* the destination name built from an id read again after the insert
IdNameRecomputed(id) == [orig |-> "", id |-> <<GenId(id.date, ParseInt(id.num) + 1)>>]

IdName(id) == [orig |-> "", id |-> <<id>>]

\* shutil.move / os.replace of a file onto dst_name in a directory: an entry
\* already there under that name is overwritten
PutFile(dir, dst_name, fid) ==
    {e \in dir : e.name # dst_name} \cup {[name |-> dst_name, file |-> fid]}

\* a move that is tried once and never again
RobustMoveOnce(src_exists, script, i) ==
    [moved |-> src_exists /\ script.eacces = 0 /\ script.then = "ok", tries |-> 1]

RECURSIVE RobustMoveLoop(_, _, _)
\* for i in range(attempts): the outcome of attempt i is "ok" when i reaches
\* script.eacces (the number of leading EACCES failures) and script.then says so
RobustMoveLoop(src_exists, script, i) ==
    IF i >= attempts THEN [moved |-> FALSE, tries |-> i]
    ELSE IF ~src_exists THEN [moved |-> FALSE, tries |-> i + 1]
    ELSE IF i < script.eacces
         THEN IF i < attempts - 1
              THEN RobustMoveLoop(src_exists, script, i + 1)
              ELSE [moved |-> FALSE, tries |-> i + 1]
         ELSE IF script.then = "ok"
              THEN [moved |-> TRUE, tries |-> i + 1]
              ELSE [moved |-> FALSE, tries |-> i + 1]

_robust_move(src_exists, script) == RobustMoveLoop(src_exists, script, 0)

\* what the file system does to the move attempts of one _robust_move call
MoveScripts == [eacces : 0..attempts, then : {"ok", "oserror"}]

\* safe_replace: os.replace, then shutil.move when that raised; raises when
\* both do (always when src is gone)
safe_replace(src_exists, fsok) == src_exists /\ fsok

\* a wait that reads the size once more when the last two reads still differ
StableLoopExtraRead(sizes, i, last) ==
    IF \E k \in 2..checks : sizes[k] = sizes[k - 1]
    THEN [reads |-> CHOOSE k \in 2..checks :
                       /\ sizes[k] = sizes[k - 1]
                       /\ \A j \in 2..(k - 1) : sizes[j] # sizes[j - 1],
          stable |-> TRUE]
    ELSE [reads |-> checks + 1, stable |-> FALSE]

RECURSIVE StableLoop(_, _, _)
\* the loop of stable_file over the sizes os.path.getsize returns
StableLoop(sizes, i, last) ==
    IF i > checks THEN [reads |-> checks, stable |-> FALSE]
    ELSE IF sizes[i] = last THEN [reads |-> i, stable |-> TRUE]
    ELSE StableLoop(sizes, i + 1, sizes[i])

stable_file(sizes) == StableLoop(sizes, 1, -1)

(***************************** pipeline stages *****************************)
\* a graph that would keep only what the node returned
MergeReplacing(state, patch) == patch

\* LangGraph merges a node's patch into the running state key by key
Merge(state, patch) ==
    [k \in (DOMAIN state) \cup (DOMAIN patch) |->
        IF k \in DOMAIN patch THEN patch[k] ELSE state[k]]

Get(state, k, default) == IF k \in DOMAIN state THEN state[k] ELSE default

Failed(msg) == [processed_status |-> "FAILED", error_message |-> msg]

GraphState(pdf_path) == [pdf_path |-> pdf_path, image_paths |-> <<>>]

\* extract_and_crop_receipt_images: its returned text, by what the PDF yields
ExtractTool(pdf_exists, outcome, fn) ==
    IF ~pdf_exists THEN [kind |-> "error", text |-> "ERROR: PDF file not found"]
    ELSE CASE outcome = "ok" -> [kind |-> "ok", image_paths |-> <<fn>>]
           [] outcome = "raise" -> [kind |-> "raise"]
           [] OTHER ->
                [kind |-> "error", text |-> "ERROR: Failed to extract and crop images"]

\* the node with an except clause that swallows what the capability raised
call_extract_images_swallowing(state, result) ==
    CASE result.kind = "error" -> Failed(result.text)
      [] result.kind = "ok" ->
            [image_paths |-> result.image_paths, processed_status |-> "SUCCESS"]
      [] OTHER -> [image_paths |-> <<>>, processed_status |-> "SUCCESS"]

call_extract_images(state, result) ==
    CASE result.kind = "error" -> Failed(result.text)
      [] result.kind = "ok" ->
            [image_paths |-> result.image_paths, processed_status |-> "SUCCESS"]
      [] OTHER -> Failed("Extract images failed: e")

\* extract_data_from_images: image files that no longer exist are skipped
VisionTool(image_paths, imgs, outcome, date_raw) ==
    IF \A i \in 1..Len(image_paths) : image_paths[i] \notin imgs
    THEN [kind |-> "error",
          text |-> "ERROR: No valid images were successfully loaded for extraction."]
    ELSE CASE outcome = "ok" -> [kind |-> "ok", json |-> [date |-> date_raw]]
           [] outcome = "raise" -> [kind |-> "raise"]
           [] OTHER -> [kind |-> "error", text |-> "ERROR: Gemini output not valid JSON"]

\* the test a stage would make if it looked only for a missing status
ShortCircuitsWhenUnset(state) == "processed_status" \notin DOMAIN state

ShortCircuits(state) == Get(state, "processed_status", "") # "SUCCESS"

call_extract_data(state, result) ==
    IF ShortCircuits(state)
    THEN Failed("Extract data failed because of corrupted data")
    ELSE CASE result.kind = "error" -> Failed(result.text)
           [] result.kind = "ok" ->
                [extracted_json_str |-> result.json, processed_status |-> "SUCCESS"]
           [] OTHER -> Failed("Extract data failed: e")

EvalTool(outcome, score) ==
    CASE outcome = "ok" -> [kind |-> "ok", json |-> [evaluation_score |-> score]]
      [] outcome = "raise" -> [kind |-> "raise"]
      [] OTHER -> [kind |-> "error", text |-> "ERROR: LLM evaluation output not valid JSON"]

\* the node without its test for an "ERROR:" result
call_evaluate_data_unchecked(state, result) ==
    IF ShortCircuits(state)
    THEN Failed("Evaluating data failed because of corrupted data")
    ELSE CASE result.kind = "raise" -> Failed("LLM evaluation failed: e")
           [] result.kind = "ok" ->
                [evaluated_data |-> result.json, processed_status |-> "SUCCESS"]
           [] OTHER ->
                [evaluated_data |-> [evaluation_score |-> 0], processed_status |-> "SUCCESS"]

call_evaluate_data(state, result) ==
    IF ShortCircuits(state)
    THEN Failed("Evaluating data failed because of corrupted data")
    ELSE CASE result.kind = "error" -> Failed(result.text)
           [] result.kind = "ok" ->
                [evaluated_data |-> result.json, processed_status |-> "SUCCESS"]
           [] OTHER -> Failed("LLM evaluation failed: e")

\* the acceptance test with the boundary score let through
AcceptedInclusive(score) == score >= AcceptScore

\* if score > 75
Accepted(score) == score > AcceptScore


(********************************* state ***********************************)
VARIABLES
    inputDir,            \* input folder: file name -> file (NoFile when absent)
    successDir,          \* success folder: set of [name, file]
    errorDir,            \* error folder: set of [name, file]
    imagesDirExists,     \* os.path.exists(cropped_images_folder)
    images,              \* cropped page images in that folder, by base file name
    successful_receipts, \* table rows in insertion order
    failed_receipts,     \* table rows in insertion order
    mainpc,              \* main thread of monitor_and_process_pdfs
    listing,             \* what is left of os.listdir's result in the startup sweep
    atStartup,           \* history: the paths present when this lifetime started
    events,              \* creation events not yet delivered to on_created
    obspc,               \* observer thread inside on_created
    seen,                \* PDFHandler.seen
    queue,               \* work items of the executor not yet taken
    pool,                \* the executor's worker threads
    wpc,                 \* worker -> position in process_pdf
    wpath,               \* worker -> pdf_path
    ctx,                 \* worker -> running GraphState
    loc,                 \* worker -> locals of the run and its history
    submitted,           \* path -> executor.submit calls in this process lifetime
    nfiles, nstarts, ninserts, lastInsert, lastMove, nfaults

fsVars == <<inputDir, successDir, errorDir, imagesDirExists, images>>
dbVars == <<successful_receipts, failed_receipts>>
watchVars == <<mainpc, listing, atStartup, events, obspc, seen, submitted, nstarts>>
workVars == <<wpc, wpath, ctx, loc>>
vars == <<inputDir, successDir, errorDir, imagesDirExists, images,
          successful_receipts, failed_receipts, mainpc, listing, atStartup, events,
          obspc, seen, queue, pool, wpc, wpath, ctx, loc, submitted,
          nfiles, nstarts, ninserts, lastInsert, lastMove, nfaults>>

Workers == 1..2
NoInsert == [called |-> FALSE]
NoMove == [called |-> FALSE]
NoCtx == [pdf_path |-> ""]
NoCalls == [extract |-> 0, vision |-> 0, evaluate |-> 0, insert |-> 0, move |-> 0,
            rmtree |-> 0, fallback |-> 0]
NoLoc == [fid |-> NoFile, reads |-> 0, stable |-> FALSE, calls |-> NoCalls,
          new_id |-> <<>>, score |-> NoScore, final |-> <<>>, raised |-> FALSE,
          dup |-> FALSE, firstFail |-> "", wasProcessed |-> FALSE, toolsOk |-> TRUE,
          rows0 |-> 0, checked |-> FALSE]

InitCommon ==
    /\ successDir = {}
    /\ errorDir = {}
    /\ imagesDirExists = TRUE
    /\ images = {}
    /\ failed_receipts = <<>>
    /\ mainpc = "down"
    /\ listing = <<>>
    /\ atStartup = {}
    /\ events = <<>>
    /\ obspc = "wait"
    /\ seen = {}
    /\ queue = <<>>
    /\ wpc = [w \in Workers |-> "idle"]
    /\ wpath = [w \in Workers |-> ""]
    /\ ctx = [w \in Workers |-> NoCtx]
    /\ loc = [w \in Workers |-> NoLoc]
    /\ submitted = [p \in Paths |-> 0]
    /\ ninserts = 0
    /\ lastInsert = NoInsert
    /\ lastMove = NoMove

\* the program as written: ThreadPoolExecutor(max_workers=1)
Init ==
    /\ InitCommon
    /\ pool = 1..max_workers
    /\ inputDir = [fn \in Names |-> NoFile]
    /\ successful_receipts = <<>>
    /\ nfiles = 0
    /\ nstarts = 0
    /\ nfaults = 0

(************************* environment and watcher *************************)
ObserverRunning == mainpc \in {"listdir", "sweep", "sweep_add", "loop"}

RECURSIVE Repeat(_, _)
Repeat(x, n) == IF n = 0 THEN <<>> ELSE <<x>> \o Repeat(x, n - 1)

\* a new PDF is written into the input folder; a running observer is told
\* once, or more than once (the OS may report one creation several times)
DropFile(fn) ==
    /\ nfiles < MaxFiles
    /\ inputDir[fn] = NoFile
    /\ nfiles' = nfiles + 1
    /\ inputDir' = [inputDir EXCEPT ![fn] = nfiles + 1]
    /\ IF ObserverRunning
       THEN \E extra \in 0..MaxDupEvents :
              events' = events \o Repeat(InputPath(fn), 1 + extra)
       ELSE events' = events
    /\ UNCHANGED <<atStartup, successDir, errorDir, imagesDirExists, images, dbVars, mainpc,
                   listing, obspc, seen, queue, pool, workVars, submitted,
                   nstarts, ninserts, lastInsert, lastMove, nfaults>>

\* monitor_and_process_pdfs up to observer.start()
Start ==
    /\ mainpc = "down"
    /\ nstarts < MaxStarts
    /\ nstarts' = nstarts + 1
    /\ mainpc' = "listdir"
    /\ atStartup' = {InputPath(fn) : fn \in {n \in Names : inputDir[n] # NoFile}}
    /\ UNCHANGED <<fsVars, dbVars, listing, events, obspc, seen, queue, pool,
                   workVars, submitted, nfiles, ninserts, lastInsert, lastMove, nfaults>>

IsPdf(fn) == fn \in {"a.pdf", "b.pdf"}

\* os.listdir(input_pdf_folder): the files present, in the order the OS gives
ListDir ==
    /\ mainpc = "listdir"
    /\ LET present == {fn \in Names : inputDir[fn] # NoFile /\ IsPdf(fn)}
       IN  \E order \in [1..Cardinality(present) -> present] :
              /\ \A i, j \in 1..Cardinality(present) : i # j => order[i] # order[j]
              /\ listing' = [i \in 1..Cardinality(present) |-> InputPath(order[i])]
    /\ mainpc' = "sweep"
    /\ UNCHANGED <<atStartup, fsVars, dbVars, events, obspc, seen, queue, pool, workVars,
                   submitted, nfiles, nstarts, ninserts, lastInsert, lastMove, nfaults>>

\* handler.on_created on the main thread: the test `src_path in self.seen`
SweepCheck ==
    /\ mainpc = "sweep"
    /\ IF listing = <<>>
       THEN mainpc' = "loop" /\ listing' = listing
       ELSE IF Head(listing) \in seen
            THEN mainpc' = "sweep" /\ listing' = Tail(listing)
            ELSE mainpc' = "sweep_add" /\ listing' = listing
    /\ UNCHANGED <<atStartup, fsVars, dbVars, events, obspc, seen, queue, pool, workVars,
                   submitted, nfiles, nstarts, ninserts, lastInsert, lastMove, nfaults>>

\* handler.on_created on the main thread: seen.add and executor.submit
SweepAdd ==
    /\ mainpc = "sweep_add"
    /\ seen' = seen \cup {Head(listing)}
    /\ queue' = Append(queue, Head(listing))
    /\ submitted' = [submitted EXCEPT ![Head(listing)] = @ + 1]
    /\ listing' = Tail(listing)
    /\ mainpc' = "sweep"
    /\ UNCHANGED <<atStartup, fsVars, dbVars, events, obspc, pool, workVars,
                   nfiles, nstarts, ninserts, lastInsert, lastMove, nfaults>>

\* PDFHandler.on_created on the observer thread: the filter and the seen test
ObsCheck ==
    /\ ObserverRunning
    /\ obspc = "wait"
    /\ events # <<>>
    /\ IF ~IsPdf(basename(Head(events))) \/ Head(events) \in seen
       THEN obspc' = "wait" /\ events' = Tail(events)
       ELSE obspc' = "add" /\ events' = events
    /\ UNCHANGED <<atStartup, fsVars, dbVars, mainpc, listing, seen, queue, pool, workVars,
                   submitted, nfiles, nstarts, ninserts, lastInsert, lastMove, nfaults>>

\* PDFHandler.on_created on the observer thread: seen.add and executor.submit
ObsAdd ==
    /\ obspc = "add"
    /\ seen' = seen \cup {Head(events)}
    /\ queue' = Append(queue, Head(events))
    /\ submitted' = [submitted EXCEPT ![Head(events)] = @ + 1]
    /\ events' = Tail(events)
    /\ obspc' = "wait"
    /\ UNCHANGED <<atStartup, fsVars, dbVars, mainpc, listing, pool, workVars,
                   nfiles, nstarts, ninserts, lastInsert, lastMove, nfaults>>

\* KeyboardInterrupt in the sleep loop: observer.stop()
Interrupt ==
    /\ mainpc = "loop"
    /\ mainpc' = "stopping"
    /\ UNCHANGED <<atStartup, fsVars, dbVars, listing, events, obspc, seen, queue, pool,
                   workVars, submitted, nfiles, nstarts, ninserts, lastInsert, lastMove, nfaults>>

\* an exit that would not wait for the pool
ExitAtOnce ==
    /\ mainpc = "stopping"
    /\ mainpc' = "down"
    /\ events' = <<>>
    /\ seen' = {}
    /\ atStartup' = {}
    /\ submitted' = [p \in Paths |-> 0]
    /\ UNCHANGED <<fsVars, dbVars, listing, obspc, queue, pool, workVars,
                   nfiles, nstarts, ninserts, lastInsert, lastMove, nfaults>>

\* sys.exit(0): the interpreter joins the pool's threads once the queue is drained
Exit ==
    /\ mainpc = "stopping"
    /\ obspc = "wait"
    /\ queue = <<>>
    /\ \A w \in pool : wpc[w] = "idle"
    /\ mainpc' = "down"
    /\ events' = <<>>
    /\ seen' = {}
    /\ atStartup' = {}
    /\ submitted' = [p \in Paths |-> 0]
    /\ UNCHANGED <<fsVars, dbVars, listing, obspc, queue, pool, workVars,
                   nfiles, nstarts, ninserts, lastInsert, lastMove, nfaults>>


(***************************** worker: process_pdf *************************)
\* outcomes the file system / database may give an operation: a failure only
\* while the fault budget lasts
OkChoices == IF nfaults < MaxFaults THEN BOOLEAN ELSE {TRUE}
ScriptChoices == IF nfaults < MaxFaults THEN MoveScripts
                 ELSE {sc \in MoveScripts : _robust_move(TRUE, sc).moved}
Fault(failed) == nfaults' = IF failed THEN nfaults + 1 ELSE nfaults
\* what a capability call may do: raising is an I/O fault, an "ERROR:" result is not
ToolOutcomes == IF nfaults < MaxFaults THEN {"ok", "error", "raise"} ELSE {"ok", "error"}

FileOf(w) == inputDir[basename(wpath[w])]
PdfExists(w) == FileOf(w) # NoFile

Count(l, what) == [l EXCEPT !.calls[what] = @ + 1]

\* history: whether every capability asked so far had a good answer to give
Asked(l, outcome) == [l EXCEPT !.toolsOk = @ /\ outcome = "ok"]

\* history: the first stage of the run whose patch says FAILED
NoteFail(l, stage, patch) ==
    IF l.firstFail = "" /\ patch.processed_status = "FAILED"
    THEN [l EXCEPT !.firstFail = stage]
    ELSE l

\* the node's patch is merged and, for the finalize node, kept as final_state
EndFinalize(w, l, patch) ==
    /\ ctx' = [ctx EXCEPT ![w] = Merge(@, patch)]
    /\ loc' = [loc EXCEPT ![w] = [NoteFail(l, "finalize", patch) EXCEPT !.final = <<patch>>]]
    /\ wpc' = [wpc EXCEPT ![w] = "status"]

\* a pool thread takes the next work item and process_pdf begins, lines 181-198:
\* the duplicate test and, when it is true, the duplicate row and the move to
\* the error folder (outside any try: what raises there, the SELECT of
\* receipt_exists included, leaves process_pdf)
Dispatch(w) ==
    /\ w \in pool
    /\ wpc[w] = "idle"
    /\ queue # <<>>
    /\ queue' = Tail(queue)
    /\ wpath' = [wpath EXCEPT ![w] = Head(queue)]
    /\ LET pdf_path == Head(queue)
           fn == basename(pdf_path)
           fid == inputDir[fn]
           begun == [NoLoc EXCEPT !.fid = fid,
                                  !.rows0 = Len(successful_receipts) + Len(failed_receipts),
                                  !.wasProcessed = receipt_exists(successful_receipts, fn),
                                  !.checked = TRUE]
       IN  \E readok \in OkChoices :
             IF ~readok
             THEN /\ wpc' = [wpc EXCEPT ![w] = "done"]
                  /\ loc' = [loc EXCEPT ![w] = [begun EXCEPT !.raised = TRUE, !.checked = FALSE]]
                  /\ ctx' = ctx
                  /\ Fault(TRUE)
                  /\ UNCHANGED <<inputDir, errorDir, failed_receipts>>
             ELSE IF receipt_exists(successful_receipts, pdf_path)
             THEN \E now \in Today, dbok \in OkChoices, script \in ScriptChoices :
                    LET r == insert_failed_receipt(failed_receipts, fn, DuplicateMsg, "",
                                                   NoScore, fid, now, dbok)
                        mv == _robust_move(fid # NoFile, script)
                        moved == r.ok /\ mv.moved
                    IN  /\ failed_receipts' = r.table
                        /\ inputDir' = IF moved THEN [inputDir EXCEPT ![fn] = NoFile]
                                       ELSE inputDir
                        /\ errorDir' = IF moved THEN PutFile(errorDir, OrigName(fn), fid)
                                       ELSE errorDir
                        /\ loc' = [loc EXCEPT ![w] =
                                     [begun EXCEPT !.dup = TRUE, !.raised = ~moved,
                                                   !.new_id = IF r.ok THEN <<r.id>> ELSE <<>>,
                                                   !.calls.insert = 1,
                                                   !.calls.move = IF r.ok THEN 1 ELSE 0]]
                        /\ wpc' = [wpc EXCEPT ![w] = "done"]
                        /\ ctx' = ctx
                        /\ Fault(~dbok \/ (r.ok /\ fid # NoFile /\ ~mv.moved))
             ELSE /\ wpc' = [wpc EXCEPT ![w] = "stable"]
                  /\ ctx' = [ctx EXCEPT ![w] = GraphState(pdf_path)]
                  /\ loc' = [loc EXCEPT ![w] = begun]
                  /\ UNCHANGED <<inputDir, errorDir, failed_receipts, nfaults>>
    /\ UNCHANGED <<successDir, imagesDirExists, images, successful_receipts,
                   watchVars, pool, nfiles, ninserts, lastInsert, lastMove>>

\* process_pdf line 201: stable_file(pdf_path). os.path.getsize raises when the
\* file is gone; the except clause's safe_replace then raises too (lines 219-221)
StableFile(w) ==
    /\ wpc[w] = "stable"
    /\ IF ~PdfExists(w)
       THEN /\ wpc' = [wpc EXCEPT ![w] = "done"]
            /\ loc' = [loc EXCEPT ![w] = [Count(@, "fallback") EXCEPT !.raised = TRUE]]
       ELSE \E sizes \in [1..checks -> 1..MaxSize] :
              /\ loc' = [loc EXCEPT ![w].fid = FileOf(w),
                                    ![w].reads = stable_file(sizes).reads,
                                    ![w].stable = stable_file(sizes).stable]
              /\ wpc' = [wpc EXCEPT ![w] = "extract_images"]
    /\ UNCHANGED <<fsVars, dbVars, watchVars, queue, pool, wpath, ctx, nfiles,
                   ninserts, lastInsert, lastMove, nfaults>>

\* node extract_images
ExtractImages(w) ==
    /\ wpc[w] = "extract_images"
    /\ \E outcome \in ToolOutcomes :
         LET fn == basename(wpath[w])
             patch == call_extract_images(ctx[w], ExtractTool(PdfExists(w), outcome, fn))
         IN  /\ images' = IF PdfExists(w) /\ outcome = "ok"
                          THEN images \cup {fn} ELSE images
             /\ imagesDirExists' = IF PdfExists(w) /\ outcome # "raise"
                                   THEN TRUE ELSE imagesDirExists
             /\ ctx' = [ctx EXCEPT ![w] = Merge(@, patch)]
             /\ loc' = [loc EXCEPT ![w] =
                          [NoteFail(Count(Asked(@, outcome), "extract"), "extract_images", patch)
                             EXCEPT !.reads = 0, !.stable = FALSE]]
             /\ Fault(outcome = "raise")
    /\ wpc' = [wpc EXCEPT ![w] = "extract_data"]
    /\ UNCHANGED <<inputDir, successDir, errorDir, dbVars, watchVars, queue, pool,
                   wpath, nfiles, ninserts, lastInsert, lastMove>>

\* node extract_data
ExtractData(w) ==
    /\ wpc[w] = "extract_data"
    /\ IF ShortCircuits(ctx[w])
       THEN LET patch == call_extract_data(ctx[w], [kind |-> "none"])
            IN  /\ ctx' = [ctx EXCEPT ![w] = Merge(@, patch)]
                /\ loc' = [loc EXCEPT ![w] = NoteFail(@, "extract_data", patch)]
                /\ nfaults' = nfaults
       ELSE \E outcome \in ToolOutcomes, date_raw \in VisionDates :
              LET patch == call_extract_data(ctx[w],
                              VisionTool(ctx[w].image_paths, images, outcome, date_raw))
              IN  /\ ctx' = [ctx EXCEPT ![w] = Merge(@, patch)]
                  /\ loc' = [loc EXCEPT ![w] =
                               NoteFail(Count(Asked(@, outcome), "vision"), "extract_data", patch)]
                  /\ Fault(outcome = "raise")
    /\ wpc' = [wpc EXCEPT ![w] = "evaluate_data"]
    /\ UNCHANGED <<fsVars, dbVars, watchVars, queue, pool, wpath, nfiles, ninserts, lastInsert, lastMove>>

\* node evaluate_data
EvaluateData(w) ==
    /\ wpc[w] = "evaluate_data"
    /\ IF ShortCircuits(ctx[w])
       THEN LET patch == call_evaluate_data(ctx[w], [kind |-> "none"])
            IN  /\ ctx' = [ctx EXCEPT ![w] = Merge(@, patch)]
                /\ loc' = [loc EXCEPT ![w] = NoteFail(@, "evaluate_data", patch)]
                /\ nfaults' = nfaults
       ELSE \E outcome \in ToolOutcomes, score \in Scores :
              LET patch == call_evaluate_data(ctx[w], EvalTool(outcome, score))
              IN  /\ ctx' = [ctx EXCEPT ![w] = Merge(@, patch)]
                  /\ loc' = [loc EXCEPT ![w] =
                               NoteFail(Count(Asked(@, outcome), "evaluate"), "evaluate_data", patch)]
                  /\ Fault(outcome = "raise")
    /\ wpc' = [wpc EXCEPT ![w] = "finalize"]
    /\ UNCHANGED <<fsVars, dbVars, watchVars, queue, pool, wpath, nfiles, ninserts, lastInsert, lastMove>>


\* node finalize, lines 136-150 up to the id read of the insert helper
\* (_next_receipt_id's SELECT); the INSERT is the next statement
Finalize(w) ==
    /\ wpc[w] = "finalize"
    /\ IF ShortCircuits(ctx[w])
       THEN EndFinalize(w, loc[w], Failed("Finalize failed because of corrupted data"))
       ELSE \E now \in Today :
              LET score == ctx[w].evaluated_data.evaluation_score
                  date_yymmdd == DateYYMMDD(ctx[w].extracted_json_str.date, now)
                  table == IF Accepted(score) THEN successful_receipts
                           ELSE failed_receipts
              IN  /\ loc' = [loc EXCEPT ![w].new_id = <<_next_receipt_id(table, date_yymmdd)>>,
                                        ![w].score = score]
                  /\ wpc' = [wpc EXCEPT ![w] = "insert"]
                  /\ ctx' = ctx
    /\ UNCHANGED <<fsVars, dbVars, watchVars, queue, pool, wpath, nfiles, ninserts, lastInsert, lastMove, nfaults>>

\* node finalize: the INSERT of insert_success_receipt / insert_failed_receipt
Insert(w) ==
    /\ wpc[w] = "insert"
    /\ \E dbok \in OkChoices :
         LET fn == basename(wpath[w])
             l == Count(loc[w], "insert")
             r == IF Accepted(l.score)
                  THEN SqlInsert(successful_receipts,
                                 SuccessRow(l.new_id[1], fn, l.score, l.fid), dbok)
                  ELSE SqlInsert(failed_receipts,
                                 FailedRow(l.new_id[1], fn, LowScoreMsg, l.score, l.fid),
                                 dbok)
         IN  /\ successful_receipts' = IF Accepted(l.score) THEN r.table
                                       ELSE successful_receipts
             /\ failed_receipts' = IF Accepted(l.score) THEN failed_receipts ELSE r.table
             /\ IF r.ok
                THEN /\ loc' = [loc EXCEPT ![w] = l]
                     /\ wpc' = [wpc EXCEPT ![w] = "manage"]
                     /\ ctx' = ctx
                ELSE EndFinalize(w, l, Failed("File management failed: e"))
             /\ Fault(~dbok)
    /\ UNCHANGED <<fsVars, watchVars, queue, pool, wpath, nfiles, ninserts, lastInsert, lastMove>>

\* node finalize: manage_processed_receipt_files, the _robust_move to
\* {new_id}.pdf and the shutil.rmtree of the shared cropped-images folder
ManageFiles(w) ==
    /\ wpc[w] = "manage"
    /\ \E script \in ScriptChoices, rmok \in OkChoices :
         LET fn == basename(wpath[w])
             mv == _robust_move(PdfExists(w), script)
             l == Count(loc[w], "move")
             dst_name == IdName(l.new_id[1])
         IN  IF mv.moved
             THEN /\ inputDir' = [inputDir EXCEPT ![fn] = NoFile]
                  /\ successDir' = IF Accepted(l.score)
                                   THEN PutFile(successDir, dst_name, FileOf(w))
                                   ELSE successDir
                  /\ errorDir' = IF Accepted(l.score) THEN errorDir
                                 ELSE PutFile(errorDir, dst_name, FileOf(w))
                  /\ images' = IF imagesDirExists /\ rmok THEN {} ELSE images
                  /\ imagesDirExists' = (imagesDirExists /\ ~rmok)
                  /\ Fault(imagesDirExists /\ ~rmok)
                  /\ EndFinalize(w, IF imagesDirExists THEN Count(l, "rmtree") ELSE l,
                                 IF imagesDirExists /\ ~rmok THEN Failed("ERROR: exc")
                                 ELSE [processed_status |-> "SUCCESS"])
             ELSE /\ Fault(PdfExists(w))
                  /\ EndFinalize(w, l, Failed("ERROR: exc"))
                  /\ UNCHANGED <<inputDir, successDir, errorDir, images, imagesDirExists>>
    /\ UNCHANGED <<dbVars, watchVars, queue, pool, wpath, nfiles, ninserts, lastInsert, lastMove>>

\* the I/O faults the two safe_replace calls of process_pdf may still meet
ReplaceChoices ==
    {f \in [1..2 -> BOOLEAN] :
        (IF f[1] THEN 0 ELSE IF f[2] THEN 1 ELSE 2) <= MaxFaults - nfaults}

\* process_pdf lines 211-221: the final status and, unless it is SUCCESS, the
\* move to the error folder under the original name; when safe_replace raises,
\* the except clause calls it once more, and what that raises leaves process_pdf
Relocate(w) ==
    /\ wpc[w] = "status"
    /\ IF loc[w].final[1].processed_status = "SUCCESS"
       THEN UNCHANGED <<inputDir, errorDir, loc, nfaults>>
       ELSE \E fsok \in ReplaceChoices :
              LET fn == basename(wpath[w])
                  first == safe_replace(PdfExists(w), fsok[1])
                  second == ~first /\ safe_replace(PdfExists(w), fsok[2])
              IN  /\ inputDir' = IF first \/ second THEN [inputDir EXCEPT ![fn] = NoFile]
                                 ELSE inputDir
                  /\ errorDir' = IF first \/ second
                                 THEN PutFile(errorDir, OrigName(fn), FileOf(w))
                                 ELSE errorDir
                  /\ loc' = [loc EXCEPT ![w].calls.fallback = IF first THEN 1 ELSE 2,
                                        ![w].raised = ~(first \/ second)]
                  /\ nfaults' = IF ~PdfExists(w) \/ first THEN nfaults
                                ELSE IF second THEN nfaults + 1 ELSE nfaults + 2
    /\ wpc' = [wpc EXCEPT ![w] = "done"]
    /\ UNCHANGED <<successDir, imagesDirExists, images, dbVars, watchVars, queue, pool,
                   wpath, ctx, nfiles, ninserts, lastInsert, lastMove>>

\* process_pdf has returned (or raised into its future): the thread is free again
Finish(w) ==
    /\ wpc[w] = "done"
    /\ wpc' = [wpc EXCEPT ![w] = "idle"]
    /\ wpath' = [wpath EXCEPT ![w] = ""]
    /\ ctx' = [ctx EXCEPT ![w] = NoCtx]
    /\ loc' = [loc EXCEPT ![w] = NoLoc]
    /\ UNCHANGED <<fsVars, dbVars, watchVars, queue, pool, nfiles, ninserts, lastInsert, lastMove, nfaults>>

Environment == \E fn \in Names : DropFile(fn)

Watcher == Start \/ ListDir \/ SweepCheck \/ SweepAdd \/ ObsCheck \/ ObsAdd
           \/ Interrupt \/ Exit

Worker(w) == \/ Dispatch(w) \/ StableFile(w)
             \/ ExtractImages(w) \/ ExtractData(w) \/ EvaluateData(w)
             \/ Finalize(w) \/ Insert(w) \/ ManageFiles(w)
             \/ Relocate(w) \/ Finish(w)

Next == Environment \/ Watcher \/ \E w \in Workers : Worker(w)

Spec == Init /\ [][Next]_vars

(********************* the same program with a pool of two ******************)
\* ThreadPoolExecutor(max_workers=2): the configuration the specification's
\* concurrency section speaks of ("pool size > 1")
\* started over an input folder that already holds two PDFs, which the
\* start-up sweep submits; nothing is dropped into the folder afterwards
InitPool2 ==
    /\ InitCommon
    /\ pool = 1..2
    /\ inputDir = [fn \in Names |-> IF fn = "a.pdf" THEN 1 ELSE 2]
    /\ successful_receipts = <<>>
    /\ nfiles = 2
    /\ nstarts = 0
    /\ nfaults = 0

NextPool2 ==
    \/ Start \/ ListDir \/ SweepCheck \/ SweepAdd \/ Interrupt \/ Exit
    \/ \E w \in Workers : Worker(w)

SpecPool2 == InitPool2 /\ [][NextPool2]_vars

(************************ the receipt store on its own **********************)
\* rows the store may already hold when a process starts: the first k ids of
\* one day, as k serialized inserts leave them
PriorCounts == {0, 1, 998}
Prefilled(k) == [i \in 1..k |-> SuccessRow(GenId("241103", i), "a.pdf", AcceptScore + 1, NoFile)]

RECURSIVE MaxCounterIn(_, _, _, _)
\* the largest counter, as a number, among rows lo..hi with the date prefix; 0 when none
MaxCounterIn(table, date, lo, hi) ==
    IF lo > hi THEN 0
    ELSE IF lo = hi
         THEN IF table[lo].generated_receipt_id.date = date
              THEN ParseInt(table[lo].generated_receipt_id.num) ELSE 0
         ELSE LET mid == (lo + hi) \div 2
                  l == MaxCounterIn(table, date, lo, mid)
                  r == MaxCounterIn(table, date, mid + 1, hi)
              IN  IF l < r THEN r ELSE l

MaxCounter(table, date) == MaxCounterIn(table, date, 1, Len(table))

InitStore ==
    /\ InitCommon
    /\ pool = 1..max_workers
    /\ inputDir = [fn \in Names |-> NoFile]
    /\ nfiles = 0
    /\ nstarts = 0
    /\ nfaults = 0
    /\ \E k \in PriorCounts : successful_receipts = Prefilled(k)

\* one serialized call of insert_success_receipt
SerialInsertSuccess ==
    /\ ninserts < MaxSerialInserts
    /\ \E fn \in Names, date_raw \in RawDates, now \in Today :
         LET r == insert_success_receipt(successful_receipts, fn, date_raw,
                                         AcceptScore + 1, NoFile, now, TRUE)
         IN  /\ successful_receipts' = r.table
             /\ lastInsert' = [called |-> TRUE, table |-> "successful_receipts",
                               ok |-> r.ok, id |-> r.id,
                               prev |-> MaxCounter(successful_receipts,
                                                   DateYYMMDD(date_raw, now))]
    /\ ninserts' = ninserts + 1
    /\ UNCHANGED <<fsVars, failed_receipts, watchVars, queue, pool, workVars,
                   nfiles, nfaults, lastMove>>

\* one serialized call of insert_failed_receipt
SerialInsertFailed ==
    /\ ninserts < MaxSerialInserts
    /\ \E fn \in Names, date_raw \in RawDates, now \in Today :
         LET r == insert_failed_receipt(failed_receipts, fn, LowScoreMsg, date_raw,
                                        AcceptScore, NoFile, now, TRUE)
         IN  /\ failed_receipts' = r.table
             /\ lastInsert' = [called |-> TRUE, table |-> "failed_receipts",
                               ok |-> r.ok, id |-> r.id,
                               prev |-> MaxCounter(failed_receipts,
                                                   DateYYMMDD(date_raw, now))]
    /\ ninserts' = ninserts + 1
    /\ UNCHANGED <<fsVars, successful_receipts, watchVars, queue, pool, workVars,
                   nfiles, nfaults, lastMove>>

NextStore == SerialInsertSuccess \/ SerialInsertFailed

SpecStore == InitStore /\ [][NextStore]_vars


(*************** one worker over a folder that holds two PDFs ***************)
InitFolder ==
    /\ InitCommon
    /\ pool = 1..max_workers
    /\ inputDir = [fn \in Names |-> IF fn = "a.pdf" THEN 1 ELSE 2]
    /\ successful_receipts = <<>>
    /\ nfiles = 2
    /\ nstarts = 0
    /\ nfaults = 0

\* the pool thread runs whenever it has work: process_pdf calls made through
\* executor.submit are run to their end, one after the other
SpecLive == InitFolder /\ [][NextPool2]_vars /\ WF_vars(\E w \in Workers : Worker(w))

(************************ the two file moves on their own *******************)
\* manage_processed_receipt_files, lines 279-281: the _robust_move of a PDF of
\* the input folder to {new_file_name}.pdf in the success or error folder
MoveCall ==
    /\ \E fn \in Names, script \in MoveScripts, validation_success \in BOOLEAN,
          n \in 1..2 :
         LET fid == inputDir[fn]
             mv == _robust_move(fid # NoFile, script)
             dst_name == IdName(GenId("241103", n))
         IN  /\ inputDir' = IF mv.moved THEN [inputDir EXCEPT ![fn] = NoFile]
                            ELSE inputDir
             /\ successDir' = IF mv.moved /\ validation_success
                              THEN PutFile(successDir, dst_name, fid) ELSE successDir
             /\ errorDir' = IF mv.moved /\ ~validation_success
                            THEN PutFile(errorDir, dst_name, fid) ELSE errorDir
             /\ lastMove' = [called |-> TRUE, via |-> "_robust_move",
                             src_exists |-> fid # NoFile, script |-> script,
                             moved |-> mv.moved, tries |-> mv.tries]
    /\ UNCHANGED <<imagesDirExists, images, dbVars, watchVars, queue, pool, workVars,
                   nfiles, ninserts, lastInsert, nfaults>>

\* process_pdf, line 218: the safe_replace of a PDF of the input folder to the
\* error folder under its own name
ReplaceCall ==
    /\ \E fn \in Names, fsok \in BOOLEAN :
         LET fid == inputDir[fn]
             moved == safe_replace(fid # NoFile, fsok)
         IN  /\ inputDir' = IF moved THEN [inputDir EXCEPT ![fn] = NoFile] ELSE inputDir
             /\ errorDir' = IF moved THEN PutFile(errorDir, OrigName(fn), fid)
                            ELSE errorDir
             /\ lastMove' = [called |-> TRUE, via |-> "safe_replace",
                             src_exists |-> fid # NoFile, moved |-> moved]
    /\ UNCHANGED <<successDir, imagesDirExists, images, dbVars, watchVars, queue, pool,
                   workVars, nfiles, ninserts, lastInsert, nfaults>>

NextMove == MoveCall \/ ReplaceCall

SpecMove == InitFolder /\ [][NextMove]_vars


(******************************** properties *******************************)
Rows(table) == {table[i] : i \in 1..Len(table)}
RowsOfFile(table, fid) == {r \in Rows(table) : r.file = fid}
EntriesOfFile(dir, fid) == {e \in dir : e.file = fid}

\* process_pdf has returned or raised for the file worker w was given
Ended(w) == w \in pool /\ wpc[w] = "done" /\ loc[w].fid # NoFile

\* the finalize node of w's run returned SUCCESS
FinalizeSucceeded(w) ==
    /\ loc[w].final # <<>>
    /\ loc[w].final[1].processed_status = "SUCCESS"

\* the row and the place the acceptance rule gives the file of w's finished run
RecordedAsScored(w) ==
    IF Accepted(loc[w].score)
    THEN /\ \E r \in Rows(successful_receipts) :
               /\ r.generated_receipt_id = loc[w].new_id[1]
               /\ r.file = loc[w].fid
               /\ r.evaluation_score = loc[w].score
         /\ [name |-> IdName(loc[w].new_id[1]), file |-> loc[w].fid] \in successDir
         /\ EntriesOfFile(errorDir, loc[w].fid) = {}
         /\ RowsOfFile(failed_receipts, loc[w].fid) = {}
    ELSE /\ \E r \in Rows(failed_receipts) :
               /\ r.generated_receipt_id = loc[w].new_id[1]
               /\ r.file = loc[w].fid
               /\ r.evaluation_score = loc[w].score
               /\ r.error_message = LowScoreMsg
         /\ [name |-> IdName(loc[w].new_id[1]), file |-> loc[w].fid] \in errorDir
         /\ EntriesOfFile(successDir, loc[w].fid) = {}
         /\ RowsOfFile(successful_receipts, loc[w].fid) = {}

\* C1: once process_pdf is over for a dispatched PDF, the file is in exactly
\* one of the success and error directories, exactly one row of the two tables
\* records it, and the file's name there is that row's generated id (stated
\* here for the runs of a disk and a database that have not failed)
C1_OneOutcomePerFile ==
    \A w \in Workers :
        (Ended(w) /\ nfaults = 0) =>
            LET fid == loc[w].fid
                ok_rows == RowsOfFile(successful_receipts, fid)
                ko_rows == RowsOfFile(failed_receipts, fid)
                ok_files == EntriesOfFile(successDir, fid)
                ko_files == EntriesOfFile(errorDir, fid)
            IN  /\ Cardinality(ok_files) + Cardinality(ko_files) = 1
                /\ Cardinality(ok_rows) + Cardinality(ko_rows) = 1
                /\ \A e \in ok_files \cup ko_files :
                       \/ \E r \in ok_rows : e.name = IdName(r.generated_receipt_id)
                       \/ \E r \in ko_rows : e.name = IdName(r.generated_receipt_id)

\* C2: a PDF dispatched while its file name is in successful_receipts reaches
\* none of the three capabilities, gets one duplicate row in failed_receipts
\* and is moved to the error directory
C2_DuplicateSkipsPipeline ==
    \A w \in Workers :
        (w \in pool /\ loc[w].wasProcessed) =>
            /\ loc[w].calls.extract = 0
            /\ loc[w].calls.vision = 0
            /\ loc[w].calls.evaluate = 0
            /\ Ended(w) =>
                 /\ Cardinality({r \in RowsOfFile(failed_receipts, loc[w].fid) :
                                    r.error_message = DuplicateMsg}) = 1
                 /\ EntriesOfFile(errorDir, loc[w].fid) # {}

\* C3: after the first of extract_images, extract_data, evaluate_data fails in
\* a run, no later stage's capability is called in that run (no vision call,
\* no evaluation call, no insert, move or scratch deletion by finalize), and
\* the run's final status is FAILED
C3_ShortCircuit ==
    \A w \in Workers :
        LET l == loc[w]
            early == {"extract_images", "extract_data", "evaluate_data"}
        IN  /\ l.firstFail = "extract_images" => l.calls.vision = 0
            /\ l.firstFail \in {"extract_images", "extract_data"} => l.calls.evaluate = 0
            /\ l.firstFail \in early =>
                 /\ l.calls.insert = 0
                 /\ l.calls.move = 0
                 /\ l.calls.rmtree = 0
                 /\ ctx[w].processed_status = "FAILED"
                 /\ wpc[w] \in {"status", "done"} =>
                      /\ l.final # <<>>
                      /\ l.final[1].processed_status = "FAILED"
                      /\ l.firstFail = "extract_images" => l.calls.extract = 1
                      /\ l.firstFail = "extract_data" => l.calls.vision = 1
                      /\ l.firstFail = "evaluate_data" => l.calls.evaluate = 1

\* C3 witness: a run whose vision stage was the first to fail has ended
C3_VisionFailureEnded ==
    \E w \in pool :
        /\ wpc[w] = "done"
        /\ loc[w].firstFail = "extract_data"
        /\ loc[w].calls.vision = 1
        /\ loc[w].calls.fallback >= 1

\* C4: within a run the context's error_message, once a stage has set it, is
\* not changed by a later stage
C4_ErrorMessageSetOnce ==
    [][\A w \in Workers :
         ("error_message" \in DOMAIN ctx[w] /\ wpc'[w] # "idle") =>
             /\ "error_message" \in DOMAIN ctx'[w]
             /\ ctx'[w].error_message = ctx[w].error_message]_vars

\* C5: the score reaching finalize decides table and directory: only scores
\* above 75 are written to successful_receipts and the success directory, a
\* score of 75 or less is written to failed_receipts with the low-confidence
\* message and goes to the error directory; a finalize that returns SUCCESS
\* has written the row and moved the file accordingly
C5_ScoreDecidesTable ==
    /\ \A r \in Rows(successful_receipts) :
           /\ r.evaluation_score > AcceptScore
           /\ EntriesOfFile(errorDir, r.file) \subseteq
                  {[name |-> OrigName(r.original_pdf_filename), file |-> r.file]}
    /\ \A r \in Rows(failed_receipts) :
           r.error_message = LowScoreMsg =>
               /\ r.evaluation_score <= AcceptScore
               /\ EntriesOfFile(successDir, r.file) = {}
    /\ \A e \in successDir :
           \E r \in Rows(successful_receipts) :
               r.file = e.file /\ e.name = IdName(r.generated_receipt_id)
    /\ \A w \in Workers :
           (w \in pool /\ wpc[w] \in {"status", "done"} /\ FinalizeSucceeded(w)) =>
               RecordedAsScored(w)

\* C5 witness: a file scored exactly 75 was rejected and a file scored 76 was
\* accepted, the second run just over
C5_BoundaryScoresSeen ==
    /\ \E r \in Rows(failed_receipts) :
           r.evaluation_score = AcceptScore /\ r.error_message = LowScoreMsg
    /\ \E w \in pool :
           /\ wpc[w] = "done"
           /\ FinalizeSucceeded(w)
           /\ loc[w].score = AcceptScore + 1
           /\ [name |-> IdName(loc[w].new_id[1]), file |-> loc[w].fid] \in successDir

\* C6: the first pipeline stage starts for a file only after stable_file saw
\* its size unchanged between reads
C6_StableBeforePipeline ==
    \A w \in Workers :
        (w \in pool /\ wpc[w] = "extract_images") => loc[w].stable

\* C7: during one lifetime of the process every input path is submitted to
\* the pool at most once
C7_SubmittedAtMostOnce == \A p \in Paths : submitted[p] <= 1

\* C8: a file processed while another file is processed by a second worker
\* gets what it gets alone: when each capability has a good answer for it and
\* disk and database do not fail, the row and the place its score gives it
C8_IndependentOutcomes ==
    \A w \in Workers :
        (Ended(w) /\ submitted[wpath[w]] = 1 /\ loc[w].toolsOk /\ nfaults = 0) =>
            /\ FinalizeSucceeded(w)
            /\ RecordedAsScored(w)

\* C9: a serialized insert succeeds and returns, for its date prefix, the
\* previous maximum counter plus one (001 when there is none), written with
\* three digits
C9_CountersIncrease ==
    lastInsert.called =>
        /\ lastInsert.ok
        /\ Len(lastInsert.id.num) = IdWidth
        /\ ParseInt(lastInsert.id.num) = lastInsert.prev + 1

\* C10: a run that ends accepted has a row in successful_receipts, every other
\* ended run has a row in failed_receipts recording the file (stated here for
\* the runs of a disk and a database that have not failed)
C10_OutcomePersisted ==
    \A w \in Workers :
        (Ended(w) /\ nfaults = 0) =>
            IF FinalizeSucceeded(w) /\ Accepted(loc[w].score)
            THEN \E r \in RowsOfFile(successful_receipts, loc[w].fid) :
                     r.original_pdf_filename = basename(wpath[w])
            ELSE \E r \in RowsOfFile(failed_receipts, loc[w].fid) :
                     r.original_pdf_filename = basename(wpath[w])


\* C11: after process_pdf is over for a file, whether the pipeline returned
\* FAILED or a step of the dispatch path raised, the file is no longer in the
\* input directory
C11_InputCleared ==
    \A w \in Workers :
        (w \in pool /\ wpc[w] = "done" /\ loc[w].fid # NoFile) =>
            inputDir[basename(wpath[w])] # loc[w].fid

\* C12: when finalize returns FAILED because its insert, its move or its
\* scratch deletion failed, the PDF is still at pdf_path in the input directory
C12_FinalizeFailureLeavesFile ==
    \A w \in Workers :
        (w \in pool /\ wpc[w] = "status" /\ loc[w].firstFail = "finalize") =>
            /\ loc[w].fid # NoFile
            /\ inputDir[basename(wpath[w])] = loc[w].fid

\* C13: the test process_pdf makes at dispatch is the file-name keyed one: a
\* run enters the pipeline only when no row of successful_receipts has its
\* file name, and takes the duplicate branch only when one has
C13_DispatchTestsFileName ==
    \A w \in Workers :
        /\ (w \in pool /\ wpc[w] \notin {"idle", "done"}) => ~loc[w].wasProcessed
        /\ (w \in pool /\ loc[w].dup) => loc[w].wasProcessed

\* C14: the observer thread submits a path only after every file that was in
\* the input directory at start-up has been submitted by the start-up sweep
C14_SweepBeforeLiveEvents ==
    [][(obspc = "add" /\ obspc' = "wait") =>
           \A q \in atStartup : submitted[q] >= 1]_vars

C16_NoFileLost ==
    \A f \in 1..nfiles :
        \/ \E fn \in Names : inputDir[fn] = f
        \/ EntriesOfFile(successDir, f) # {}
        \/ EntriesOfFile(errorDir, f) # {}

\* C17: one process_pdf invocation inserts at most one row over both tables
C17_AtMostOneRow ==
    \A w \in Workers :
        (w \in pool /\ wpc[w] # "idle") =>
            LET written == Len(successful_receipts) + Len(failed_receipts) - loc[w].rows0
            IN  /\ loc[w].calls.insert <= 1
                /\ written \in {0, 1}
                /\ written = 1 => loc[w].calls.insert = 1

\* C17 witness: a run that wrote its row and then failed has ended with that
\* one row only
C17_RowThenFailure ==
    \E w \in pool :
        /\ wpc[w] = "done"
        /\ loc[w].calls.insert = 1
        /\ loc[w].calls.move = 1
        /\ loc[w].final # <<>>
        /\ loc[w].final[1].processed_status = "FAILED"
        /\ Len(successful_receipts) + Len(failed_receipts) = loc[w].rows0 + 1

\* C18: in a run the stages come in the order extract_images, extract_data,
\* evaluate_data, finalize, each capability is called at most once, and a run
\* in which a capability failed ends FAILED (nothing is tried again)
C18_StagesOnceInOrder ==
    \A w \in Workers :
        LET c == loc[w].calls
        IN  /\ c.extract <= 1 /\ c.vision <= 1 /\ c.evaluate <= 1
            /\ c.vision = 1 => c.extract = 1
            /\ c.evaluate = 1 => c.vision = 1
            /\ (c.insert = 1 /\ ~loc[w].dup) => c.evaluate = 1
            /\ wpc[w] \in {"stable", "extract_images"} =>
                   c.extract = 0 /\ c.vision = 0 /\ c.evaluate = 0 /\ c.insert = 0
            /\ wpc[w] = "extract_data" =>
                   c.extract = 1 /\ c.vision = 0 /\ c.evaluate = 0 /\ c.insert = 0
            /\ wpc[w] = "evaluate_data" =>
                   c.extract = 1 /\ c.evaluate = 0 /\ c.insert = 0
            /\ wpc[w] = "finalize" =>
                   c.extract = 1 /\ c.insert = 0 /\ c.move = 0
            /\ (wpc[w] \in {"status", "done"} /\ ~loc[w].toolsOk) =>
                   /\ loc[w].final # <<>>
                   /\ loc[w].final[1].processed_status = "FAILED"

\* C18 witness: a run whose evaluation capability failed, called once, has ended
C18_EvaluationFailedOnce ==
    \E w \in pool :
        /\ wpc[w] = "done"
        /\ ~loc[w].toolsOk
        /\ loc[w].calls.evaluate = 1
        /\ loc[w].firstFail = "evaluate_data"

C20_PatchesMerged ==
    [][\A w \in Workers :
         (wpc[w] # "idle" /\ wpc'[w] # "idle") =>
             /\ "pdf_path" \in DOMAIN ctx'[w]
             /\ ctx'[w].pdf_path = ctx[w].pdf_path
             /\ (wpc[w] \notin {"stable", "extract_images"}
                    /\ "image_paths" \in DOMAIN ctx[w]) =>
                    /\ "image_paths" \in DOMAIN ctx'[w]
                    /\ ctx'[w].image_paths = ctx[w].image_paths
             /\ \A k \in {"extracted_json_str", "evaluated_data"} :
                    k \in DOMAIN ctx[w] =>
                        (k \in DOMAIN ctx'[w] /\ ctx'[w][k] = ctx[w][k])]_vars

\* C20 witness: a run that failed in finalize has ended with the path, the
\* image paths, the extracted data and the evaluation all in its context
C20_ContextKeptToTheEnd ==
    \E w \in pool :
        /\ wpc[w] = "done"
        /\ loc[w].firstFail = "finalize"
        /\ ctx[w].pdf_path = wpath[w]
        /\ ctx[w].image_paths # <<>>
        /\ "extracted_json_str" \in DOMAIN ctx[w]
        /\ "evaluated_data" \in DOMAIN ctx[w]

\* the positions of a run that lie inside one of the four stage nodes
StagePcs == {"extract_images", "extract_data", "evaluate_data", "finalize",
             "insert", "manage"}

\* where a run may stand after a step taken inside a stage node
AfterStage(pc) ==
    CASE pc = "extract_images" -> {"extract_data"}
      [] pc = "extract_data" -> {"evaluate_data"}
      [] pc = "evaluate_data" -> {"finalize"}
      [] pc = "finalize" -> {"insert", "status"}
      [] pc = "insert" -> {"manage", "status"}
      [] OTHER -> {"status"}

\* the error text a stage node leaves when something raised inside it
ExceptionTexts(pc) ==
    CASE pc = "extract_images" -> {"Extract images failed: e"}
      [] pc = "extract_data" -> {"Extract data failed: e"}
      [] pc = "evaluate_data" -> {"LLM evaluation failed: e"}
      [] pc = "insert" -> {"File management failed: e"}
      [] pc = "manage" -> {"ERROR: exc"}
      [] OTHER -> {}

\* C21: no exception leaves a stage node: every step a run takes inside a
\* stage ends in the next stage (or at the end of finalize) with a status in
\* the context and nothing raised into process_pdf, and a step in which a
\* capability call, an insert or a file operation raised leaves status FAILED
\* with the text of the exception
C21_NoExceptionLeavesAStage ==
    [][\A w \in pool :
         (wpc[w] \in StagePcs /\ wpc'[w] # wpc[w]) =>
             /\ wpc'[w] \in AfterStage(wpc[w])
             /\ ~loc'[w].raised
             /\ "processed_status" \in DOMAIN ctx'[w]
             /\ nfaults' > nfaults =>
                    /\ ctx'[w].processed_status = "FAILED"
                    /\ "error_message" \in DOMAIN ctx'[w]
                    /\ ctx'[w].error_message \in ExceptionTexts(wpc[w])]_vars

\* C21 witness: the extraction capability raised, the three later stages ran
\* without asking their capability, and process_pdf ended without raising
C21_RaiseInsideExtraction ==
    \E w \in pool :
        /\ wpc[w] = "done"
        /\ nfaults = 1
        /\ loc[w].firstFail = "extract_images"
        /\ loc[w].calls.extract = 1
        /\ loc[w].calls.vision = 0
        /\ loc[w].calls.evaluate = 0
        /\ loc[w].calls.insert = 0
        /\ loc[w].calls.fallback = 1
        /\ ~loc[w].toolsOk
        /\ ~loc[w].raised
        /\ loc[w].final # <<>>
        /\ ctx[w].error_message = "Finalize failed because of corrupted data"

IsPrefix(s, t) == Len(s) <= Len(t) /\ SubSeq(t, 1, Len(s)) = s

\* C22: rows are write-once: every step leaves each table's rows in place
\* with their values, new rows only being added after them, and a step in
\* which an insert fails leaves both tables as they were
C22_RowsWriteOnce ==
    [][/\ IsPrefix(successful_receipts, successful_receipts')
       /\ IsPrefix(failed_receipts, failed_receipts')
       /\ (\E w \in pool : wpc[w] = "insert" /\ wpc'[w] = "status") =>
              UNCHANGED dbVars
       /\ (ninserts' # ninserts /\ ~lastInsert'.ok) => UNCHANGED dbVars]_vars

\* C22 witness: an insert has just failed in a run that began when the store
\* already held rows, and the store holds as many rows as then
C22_FailedInsertAfterRows ==
    \E w \in pool :
        /\ wpc[w] = "status"
        /\ loc[w].calls.insert = 1
        /\ loc[w].calls.move = 0
        /\ loc[w].rows0 >= 1
        /\ loc[w].rows0 = Len(successful_receipts) + Len(failed_receipts)

UniqueIds(table) ==
    \A i, j \in 1..Len(table) :
        table[i].generated_receipt_id = table[j].generated_receipt_id => i = j

\* C23: within each table no two rows have the same generated id, also when
\* two runs read the next id before either inserts
C23_IdsUniquePerTable == UniqueIds(successful_receipts) /\ UniqueIds(failed_receipts)

\* C23 witness: with no I/O fault anywhere, the insert of a run was refused
\* because the other run's row already had the id it had read
C23_SecondInsertRefused ==
    \E w \in pool :
        /\ wpc[w] = "status"
        /\ nfaults = 0
        /\ loc[w].calls.insert = 1
        /\ loc[w].calls.move = 0
        /\ \E r \in Rows(successful_receipts) \cup Rows(failed_receipts) :
               /\ r.generated_receipt_id = loc[w].new_id[1]
               /\ r.file # loc[w].fid

\* C24: the clean-up at the end of finalize removes only the scratch images of
\* the run that finalizes: the images of another run still under way are left
\* as they are
C24_OnlyOwnImagesRemoved ==
    [][\A w \in pool :
         (wpc[w] = "manage" /\ wpc'[w] = "status") =>
             \A v \in pool \ {w} :
                 (wpc[v] \notin {"idle", "done"} /\ basename(wpath[v]) \in images) =>
                     basename(wpath[v]) \in images']_vars

\* C26: the receipt store is asked whether the file was already processed
\* only after the stability wait is over: no run has its answer while its
\* stability wait is still to come
C26_StoreCheckAfterStability ==
    \A w \in pool : loc[w].checked => wpc[w] # "stable"

\* C27: every PDF in the success directory is named by a generated id, and
\* successful_receipts has a row with that id, written for that file
C27_SuccessFileHasRow ==
    \A e \in successDir :
        /\ e.name.id # <<>>
        /\ \E r \in Rows(successful_receipts) :
               /\ r.generated_receipt_id = e.name.id[1]
               /\ r.file = e.file

\* C27 witness: an accepted file has been moved into the success directory
\* and its run is over
C27_AcceptedFileMoved ==
    \E w \in pool :
        /\ wpc[w] = "done"
        /\ Accepted(loc[w].score)
        /\ loc[w].calls.move = 1
        /\ [name |-> IdName(loc[w].new_id[1]), file |-> loc[w].fid] \in successDir

\* C25: _robust_move tries at most `attempts` times, tries again only after
\* an access-denied error on an attempt that is not the last, gives up at once
\* on any other error and on access-denied at the last attempt, and stops at
\* the first attempt that succeeds; the move of manage_processed_receipt_files
\* goes through it, the move of process_pdf's fallback goes through
\* safe_replace
C25_BoundedRetry ==
    lastMove.called =>
        /\ lastMove.via \in {"_robust_move", "safe_replace"}
        /\ lastMove.via = "_robust_move" =>
             LET sc == lastMove.script
             IN  /\ lastMove.tries \in 1..attempts
                 /\ lastMove.moved <=>
                        (lastMove.src_exists /\ sc.eacces < attempts /\ sc.then = "ok")
                 /\ lastMove.tries =
                        IF ~lastMove.src_exists THEN 1 ELSE Min(sc.eacces + 1, attempts)

\* C25 witness: a move that met access-denied on every attempt but the last
\* one was made at the last attempt
C25_MovedAtLastAttempt ==
    /\ lastMove.called
    /\ lastMove.via = "_robust_move"
    /\ lastMove.script.eacces = attempts - 1
    /\ lastMove.moved
    /\ lastMove.tries = attempts

\* C25 as stated: every move of a PDF out of the input folder goes through
\* the bounded retry of _robust_move
C25_EveryMoveRetried == lastMove.called => lastMove.via = "_robust_move"

InQueue(p) == \E i \in 1..Len(queue) : queue[i] = p

====
